---- MODULE Spec2Model ----
(***************************************************************************)
(* Character controller of the museum walk-through (main.js): key, mouse   *)
(* and pointer-lock events, the animate loop, updatePlayer with its        *)
(* collision and ground probes, the spawn search and the follow camera.    *)
(*                                                                         *)
(* Lengths are integers in hundredths of a world unit, velocities in       *)
(* hundredths of a unit per second, frame deltas in hundredths of a        *)
(* second, pitch in micro-radians and yaw in quarter turns.  Products      *)
(* that do not fall on the grid are truncated toward zero.                 *)
(* Collision meshes are axis-aligned rectangles, hit from either side.     *)
(***************************************************************************)
EXTENDS Integers, FiniteSets, Sequences, TLC

(***************************************************************************)
(* CONFIG (main.js, lines 7-27) and the literals of the probes.            *)
(***************************************************************************)
moveSpeed == 250
jumpForce == 1200
gravity == 4000
cameraDistance == 300
cameraHeight == 200
characterHeight == 100
collisionRadius == 30
groundTolerance == 15
groundSnap == 1
groundRayLift == 50
groundRayFar == 100
fallLimit == -1000
spawnOffset == 10
cameraBuffer == 20
cameraMinDistance == 50
DeltaCap == 10
PitchMax == 1047197
InfFar == 1000000

(***************************************************************************)
(* Arithmetic helpers.                                                     *)
(***************************************************************************)
Abs(n) == IF n < 0 THEN -n ELSE n

Sgn(n) == IF n < 0 THEN -1 ELSE IF n > 0 THEN 1 ELSE 0

\* integer quotient truncated toward zero
TruncDiv(a, b) == Sgn(a) * Sgn(b) * (Abs(a) \div Abs(b))

Min2(a, b) == IF a < b THEN a ELSE b

Max2(a, b) == IF a > b THEN a ELSE b

Vec(a, b, c) == [x |-> a, y |-> b, z |-> c]

Axes == {"x", "y", "z"}

\* unit vector of an axis scaled by n, added to v
AddAxis(v, a, n) == [v EXCEPT ![a] = @ + n]

(***************************************************************************)
(* Collision geometry: a mesh is a rectangle with normal axis n lying in   *)
(* the plane <n> = at, spanning lo..hi on the other two axes.              *)
(***************************************************************************)
Rect(n, at, lo, hi) == [n |-> n, at |-> at, lo |-> lo, hi |-> hi]

Floor(h, x0, x1, z0, z1) == Rect("y", h, Vec(x0, h, z0), Vec(x1, h, z1))

WallX(w, y0, y1, z0, z1) == Rect("x", w, Vec(w, y0, z0), Vec(w, y1, z1))

WallZ(w, x0, x1, y0, y1) == Rect("z", w, Vec(x0, y0, w), Vec(x1, y1, w))

\* Raycaster.intersectObjects for a ray along axis a, direction sign sg:
\* the meshes hit with 0 <= distance <= far
RayHits(o, a, sg, far, objs) ==
    {s \in objs : /\ s.n = a
                  /\ \A b \in Axes \ {a} : s.lo[b] <= o[b] /\ o[b] <= s.hi[b]
                  /\ sg * (s.at - o[a]) >= 0
                  /\ sg * (s.at - o[a]) <= far}

\* intersects[0].distance: hits are sorted by distance
Least(ds) == CHOOSE d \in ds : \A e \in ds : d <= e

NearestDist(o, a, sg, hits) == Least({sg * (s.at - o[a]) : s \in hits})

\* intersects[0].point
NearestPoint(o, a, sg, hits) == AddAxis(o, a, sg * NearestDist(o, a, sg, hits))

(***************************************************************************)
(* checkGround (lines 310-337): one downward ray from 0.5 above the feet,  *)
(* at most 1.0 long.  p is the player record, hits the meshes the ray      *)
(* meets.                                                                  *)
(***************************************************************************)
GroundRayOrigin(p) == AddAxis(p.position, "y", groundRayLift)

\* lines 311-318
GroundHits(p, objs) == RayHits(GroundRayOrigin(p), "y", -1, groundRayFar, objs)

\* line 321: intersects[0].point.y
GroundY(p, hits) == NearestPoint(GroundRayOrigin(p), "y", -1, hits).y

\* lines 320 and 325: a hit close enough below (or above) the feet while not
\* moving upward
GroundSnaps(p, hits) ==
    /\ hits # {}
    /\ p.position.y - GroundY(p, hits) <= groundTolerance
    /\ p.velocity.y <= 0

\* the snap without line 327: the falling velocity is kept
GroundKeepsFalling(p, hits) ==
    IF GroundSnaps(p, hits)
    THEN [p EXCEPT !.position.y = GroundY(p, hits) + groundSnap,
                   !.isGrounded = TRUE]
    ELSE IF p.velocity.y > 0 \/ hits = {}
         THEN [p EXCEPT !.isGrounded = FALSE]
         ELSE p

\* lines 320-336
Ground(p, hits) ==
    IF GroundSnaps(p, hits)
    THEN [p EXCEPT !.position.y = GroundY(p, hits) + groundSnap,
                   !.velocity.y = 0,
                   !.isGrounded = TRUE]
    ELSE IF p.velocity.y > 0 \/ hits = {}
         THEN [p EXCEPT !.isGrounded = FALSE]
         ELSE p

checkGround(p, objs) == Ground(p, GroundHits(p, objs))

(***************************************************************************)
(* checkCollision (lines 281-308): four horizontal probes of length        *)
(* collisionRadius from half the character height, each pushing the        *)
(* position back before the next probe is cast.                            *)
(***************************************************************************)
ProbeOrigin(pos) == AddAxis(pos, "y", TruncDiv(characterHeight, 2))

\* lines 300-304 for the hits of the probe along axis a, direction sign sg
PushBack(pos, a, sg, hits) ==
    IF hits # {}
    THEN AddAxis(pos, a,
                 -sg * (collisionRadius - NearestDist(ProbeOrigin(pos), a, sg, hits)))
    ELSE pos

\* one iteration of the loop of line 292
Probe(pos, a, sg, objs) ==
    PushBack(pos, a, sg, RayHits(ProbeOrigin(pos), a, sg, collisionRadius, objs))

checkCollision(newPosition, objs) ==
    Probe(Probe(Probe(Probe(newPosition, "x", 1, objs), "x", -1, objs),
                "z", 1, objs), "z", -1, objs)

(***************************************************************************)
(* findStartPosition (lines 237-276).                                      *)
(***************************************************************************)
testPositions == << Vec(0, 500, 0), Vec(0, 200, 0), Vec(0, 0, 0), Vec(0, -500, 0) >>

belowPosition == Vec(0, -5000, 0)

\* the hit point itself, without the offset above the ground
SpawnOnSurface(o, sg, hits) == NearestPoint(o, "y", sg, hits)

\* lines 254-258 and 266-270: the hit point raised by 0.1
Spawn(o, sg, hits) == AddAxis(NearestPoint(o, "y", sg, hits), "y", spawnOffset)

\* lines 263-275: the upward ray from below, then the default
StartBelow(hits) == IF hits # {} THEN Spawn(belowPosition, 1, hits) ELSE Vec(0, 0, 0)

\* the loop of line 250 from index i on, hits being those of its i-th ray
RECURSIVE StartFrom(_, _, _)
StartFrom(i, hits, objs) ==
    IF hits # {} THEN Spawn(testPositions[i], -1, hits)
    ELSE IF i < Len(testPositions)
         THEN StartFrom(i + 1, RayHits(testPositions[i + 1], "y", -1, InfFar, objs), objs)
         ELSE StartBelow(RayHits(belowPosition, "y", 1, InfFar, objs))

findStartPosition(objs) ==
    StartFrom(1, RayHits(testPositions[1], "y", -1, InfFar, objs), objs)

(***************************************************************************)
(* updatePlayer (lines 342-398).  k is the keys record, delta the frame    *)
(* time; the result is the pair of the new player and keys records.        *)
(***************************************************************************)
\* sine and cosine of a yaw of q quarter turns
SinQ(q) == << 0, 1, 0, -1 >>[(q % 4) + 1]

CosQ(q) == << 1, 0, -1, 0 >>[(q % 4) + 1]

\* lines 344-349: the unnormalized direction
moveDirection(k) ==
    [x |-> (IF k.right THEN 1 ELSE 0) - (IF k.left THEN 1 ELSE 0),
     z |-> (IF k.backward THEN 1 ELSE 0) - (IF k.forward THEN 1 ELSE 0)]

\* moving whenever a direction key is held, opposite or not
IsMovingAnyKey(k) == k.forward \/ k.backward \/ k.left \/ k.right

\* line 352: moveDirection.lengthSq() > 0
IsMoving(k) == moveDirection(k).x # 0 \/ moveDirection(k).z # 0

\* line 356: a component of the normalized direction, in 1/10000
UnitScale(k) ==
    IF moveDirection(k).x # 0 /\ moveDirection(k).z # 0 THEN 7071 ELSE 10000

\* line 357: applyAxisAngle about +Y by the yaw; lines 360-361: times moveSpeed
WalkVelocity(k, q) ==
    LET d == moveDirection(k)
    IN  [x |-> TruncDiv((d.x * CosQ(q) + d.z * SinQ(q)) * UnitScale(k) * moveSpeed, 10000),
         z |-> TruncDiv((d.z * CosQ(q) - d.x * SinQ(q)) * UnitScale(k) * moveSpeed, 10000)]

\* the deceleration left out: the velocity is kept
DampCoast(v) == v

\* lines 364-365: velocity *= 0.9
Damp(v) == TruncDiv(v * 9, 10)

\* lines 354-366
Horizontal(p, k) ==
    IF IsMoving(k)
    THEN [p EXCEPT !.isMoving = TRUE,
                   !.velocity.x = WalkVelocity(k, p.rotation).x,
                   !.velocity.z = WalkVelocity(k, p.rotation).z]
    ELSE [p EXCEPT !.isMoving = FALSE,
                   !.velocity.x = Damp(p.velocity.x),
                   !.velocity.z = Damp(p.velocity.z)]

\* the jump test without its grounded condition
JumpFiresAnywhere(p, k) == k.jump

\* line 369: the jump test
JumpFires(p, k) == k.jump /\ p.isGrounded

\* lines 369-373
Jump(p, k) ==
    IF JumpFires(p, k)
    THEN [p EXCEPT !.velocity.y = jumpForce, !.isGrounded = FALSE]
    ELSE p

\* line 372
JumpKeys(p, k) == IF JumpFires(p, k) THEN [k EXCEPT !.jump = FALSE] ELSE k

\* gravity without its test of isGrounded
GravityAlways(p, delta) == [p EXCEPT !.velocity.y = @ - TruncDiv(gravity * delta, 100)]

\* lines 376-378
Gravity(p, delta) ==
    IF ~p.isGrounded
    THEN [p EXCEPT !.velocity.y = @ - TruncDiv(gravity * delta, 100)]
    ELSE p

\* lines 381-384
Integrate(p, delta) ==
    [x |-> p.position.x + TruncDiv(p.velocity.x * delta, 100),
     y |-> p.position.y + TruncDiv(p.velocity.y * delta, 100),
     z |-> p.position.z + TruncDiv(p.velocity.z * delta, 100)]

\* lines 387-388
Move(p, delta, objs) == [p EXCEPT !.position = checkCollision(Integrate(p, delta), objs)]

\* the safety net with its threshold ten times too low
FallResetLate(p) ==
    IF p.position.y < 10 * fallLimit
    THEN [p EXCEPT !.position = Vec(0, 500, 0), !.velocity = Vec(0, 0, 0)]
    ELSE p

\* lines 394-397
FallReset(p) ==
    IF p.position.y < fallLimit
    THEN [p EXCEPT !.position = Vec(0, 500, 0), !.velocity = Vec(0, 0, 0)]
    ELSE p

\* the player record after lines 344-388, before checkGround
BeforeGround(p, k, delta, objs) ==
    Move(Gravity(Jump(Horizontal(p, k), k), delta), delta, objs)

\* lines 394-397 and the result: the new player and keys records, with the
\* player record as checkGround left it and whether it snapped to a surface
Settled(p, k, after, snaps) ==
    [player |-> FallReset(after), keys |-> JumpKeys(p, k), ground |-> after,
     snapped |-> snaps]

\* line 391
Grounded(p, k, before, objs) ==
    Settled(p, k, checkGround(before, objs),
            GroundSnaps(before, GroundHits(before, objs)))

updatePlayer(p, k, delta, objs) ==
    Grounded(p, k, BeforeGround(p, k, delta, objs), objs)

(***************************************************************************)
(* updateCamera (lines 429-473).                                           *)
(***************************************************************************)
\* integer square root
RECURSIVE IsqrtIn(_, _, _)
IsqrtIn(n, lo, hi) ==
    IF lo >= hi THEN lo
    ELSE LET mid == (lo + hi + 1) \div 2
         IN  IF mid * mid <= n THEN IsqrtIn(n, mid, hi) ELSE IsqrtIn(n, lo, mid - 1)

Isqrt(n) == IsqrtIn(n, 0, 4000)

\* Math.sin of an angle given in micro-radians, in 1/1000, by the Taylor
\* series up to the seventh power (|angle| <= pi/3)
SinMilli(a) ==
    LET m  == TruncDiv(a, 1000)
        m2 == TruncDiv(m * m, 1000)
        t3 == TruncDiv(TruncDiv(m * m2, 1000), 6)
        t5 == TruncDiv(TruncDiv(t3 * m2, 1000), 20)
        t7 == TruncDiv(TruncDiv(t5 * m2, 1000), 42)
    IN  m - t3 + t5 - t7

\* lines 433-437
cameraOffset(p) ==
    Vec(SinQ(p.rotation) * cameraDistance,
        cameraHeight + TruncDiv(SinMilli(p.pitch) * cameraDistance, 1000),
        CosQ(p.rotation) * cameraDistance)

\* line 440
Plus(a, b) == Vec(a.x + b.x, a.y + b.y, a.z + b.z)

desiredCameraPos(p) == Plus(p.position, cameraOffset(p))

\* lines 444-445
playerHead(p) == AddAxis(p.position, "y", characterHeight)

\* desiredCameraPos - playerHead, the unnormalized direction of line 447
SightVector(head, want) == Vec(want.x - head.x, want.y - head.y, want.z - head.z)

\* line 448, for D the sight vector
SightDistance(D) == Isqrt(D.x * D.x + D.y * D.y + D.z * D.z)

\* the ray of lines 450-451 meets mesh s: the plane is crossed within the
\* ray's length, at a point inside the rectangle
SightHit(head, D, s) ==
    /\ D[s.n] # 0
    /\ (s.at - head[s.n]) * Sgn(D[s.n]) >= 0
    /\ Abs(s.at - head[s.n]) <= Abs(D[s.n])
    /\ \A b \in Axes \ {s.n} :
          /\ s.lo[b] * Abs(D[s.n]) <= head[b] * Abs(D[s.n]) + Abs(s.at - head[s.n]) * D[b]
          /\ head[b] * Abs(D[s.n]) + Abs(s.at - head[s.n]) * D[b] <= s.hi[b] * Abs(D[s.n])

\* line 453
SightHits(head, D, objs) == {s \in objs : SightHit(head, D, s)}

\* the distance of the hit on mesh s along the ray of length len
SightHitDistance(head, D, len, s) ==
    TruncDiv(Abs(s.at - head[s.n]) * len, Abs(D[s.n]))

\* intersects[0].distance of line 457
SightNearest(head, D, len, hits) ==
    Least({SightHitDistance(head, D, len, s) : s \in hits})

\* the clearance added to the hit distance instead of subtracted
safeDistancePast(head, D, len, hits) == SightNearest(head, D, len, hits) + cameraBuffer

\* line 457
safeDistance(head, D, len, hits) == SightNearest(head, D, len, hits) - cameraBuffer

\* line 459: playerHead + direction * dist
AlongSight(head, D, len, dist) ==
    Vec(head.x + TruncDiv(D.x * dist, len),
        head.y + TruncDiv(D.y * dist, len),
        head.z + TruncDiv(D.z * dist, len))

\* lines 458-463
PullIn(head, D, len, safe) ==
    IF safe > cameraMinDistance THEN AlongSight(head, D, len, safe) ELSE head

\* lines 455-467
CameraPast(head, want, D, len, hits) ==
    IF hits # {} THEN PullIn(head, D, len, safeDistance(head, D, len, hits)) ELSE want

\* lines 447-453
CameraAlong(head, want, D, objs) ==
    CameraPast(head, want, D, SightDistance(D), SightHits(head, D, objs))

\* lines 432-467: the new camera.position
updateCamera(p, objs) ==
    CameraAlong(playerHead(p), desiredCameraPos(p),
                SightVector(playerHead(p), desiredCameraPos(p)), objs)

(***************************************************************************)
(* State.                                                                  *)
(*   phase            position of init(): awaiting the museum, awaiting    *)
(*                    the character, or past setupInput() with the         *)
(*                    animate loop running                                 *)
(*   museum           the meshes of the environment asset                  *)
(*   collisionObjects, snoopy, keys, player, camera: the globals           *)
(*   pointerLock      document.pointerLockElement === document.body        *)
(*   step             history: the last operation and what it did          *)
(*   spaceEdge        history: "armed" until a jump impulse consumes the   *)
(*                    Space press, "consumed" until Space is released,     *)
(*                    "released" until it is pressed again                 *)
(*   airborne         history: a jump impulse was applied and no ground    *)
(*                    check has set isGrounded since                       *)
(*   character        position and rotation.y of the snoopy mesh           *)
(*   walkAction       the walk animation: whether init() created it,       *)
(*                    whether it is running, and the stop callbacks that   *)
(*                    setTimeout holds                                     *)
(***************************************************************************)
VARIABLES phase, museum, collisionObjects, snoopy, pointerLock, keys, player,
          camera, step, spaceEdge, airborne, character, walkAction

vars == << phase, museum, collisionObjects, snoopy, pointerLock, keys, player,
           camera, step, spaceEdge, airborne, character, walkAction >>

\* lines 38-46
player0 ==
    [position |-> Vec(0, 0, 0), velocity |-> Vec(0, 0, 0), rotation |-> 0, pitch |-> 0,
     isGrounded |-> TRUE, isMoving |-> FALSE, hasJumped |-> FALSE]

\* lines 49-55
keys0 ==
    [forward |-> FALSE, backward |-> FALSE, left |-> FALSE, right |-> FALSE,
     jump |-> FALSE]

\* line 33: no walk action before init() creates one, no callback queued
walkAction0 == [ready |-> FALSE, running |-> FALSE, timers |-> 0]

\* the transform of a mesh as the loader leaves it
character0 == [position |-> Vec(0, 0, 0), rotation |-> 0]

\* history record of an operation other than updatePlayer
Op(name) ==
    [op |-> name, ran |-> FALSE, cam |-> FALSE, delta |-> 0, impulse |-> FALSE,
     refire |-> FALSE, midair |-> FALSE, startGrounded |-> FALSE, snapped |-> FALSE,
     groundY |-> 0, locked |-> FALSE]

\* the state at the start of init() for an environment asset holding meshes m
Start(m) ==
    /\ phase = "loadMuseum"
    /\ museum = m
    /\ collisionObjects = {}
    /\ snoopy = FALSE
    /\ pointerLock = FALSE
    /\ keys = keys0
    /\ player = player0
    /\ camera = Vec(0, 0, 0)
    /\ step = Op("init")
    /\ spaceEdge = "armed"
    /\ airborne = FALSE
    /\ character = character0
    /\ walkAction = walkAction0

(***************************************************************************)
(* init (lines 63-156): the two awaited loads.                             *)
(***************************************************************************)
\* line 96 resolves and lines 97-107 run, or it rejects and lines 143-155 run
LoadMuseum(ok) ==
    /\ phase = "loadMuseum"
    /\ phase' = IF ok THEN "loadSnoopy" ELSE "run"
    /\ collisionObjects' = IF ok THEN museum ELSE collisionObjects
    /\ step' = Op("loadMuseum")
    /\ UNCHANGED << museum, snoopy, pointerLock, keys, player, camera, spaceEdge,
                    airborne,
                    character, walkAction >>

\* line 110 resolves and lines 111-141 run, or it rejects; then lines 148-155.
\* clips: the character asset holds animation clips (line 122)
LoadCharacter(ok, clips) ==
    /\ phase = "loadSnoopy"
    /\ phase' = "run"
    /\ snoopy' = ok
    /\ walkAction' = [walkAction EXCEPT !.ready = ok /\ clips]
    /\ player' = IF ok
                 THEN [player EXCEPT !.position = findStartPosition(collisionObjects)]
                 ELSE player
    /\ step' = Op("loadSnoopy")
    /\ UNCHANGED << museum, collisionObjects, pointerLock, keys, camera, spaceEdge,
                    airborne, character >>

\* the load of a character asset without animation clips
LoadSnoopy(ok) == LoadCharacter(ok, FALSE)

(***************************************************************************)
(* setupInput (lines 188-232): the listeners, installed once init is past  *)
(* its loads.                                                              *)
(***************************************************************************)
Codes == {"KeyW", "KeyS", "KeyA", "KeyD", "Space", "Other"}

KeyField(c) ==
    CASE c = "KeyW" -> "forward"
      [] c = "KeyS" -> "backward"
      [] c = "KeyA" -> "left"
      [] c = "KeyD" -> "right"
      [] c = "Space" -> "jump"

\* lines 191-197 and 201-207
SetKey(k, c, down) == IF c = "Other" THEN k ELSE [k EXCEPT ![KeyField(c)] = down]

KeyDown(c) ==
    /\ phase = "run"
    /\ keys' = SetKey(keys, c, TRUE)
    /\ spaceEdge' = IF c = "Space" /\ spaceEdge = "released" THEN "armed" ELSE spaceEdge
    /\ step' = Op("keydown")
    /\ UNCHANGED << phase, museum, collisionObjects, snoopy, pointerLock, player,
                    camera, airborne,
                    character, walkAction >>

KeyUp(c) ==
    /\ phase = "run"
    /\ keys' = SetKey(keys, c, FALSE)
    /\ spaceEdge' = IF c = "Space" /\ spaceEdge = "consumed" THEN "released" ELSE spaceEdge
    /\ step' = Op("keyup")
    /\ UNCHANGED << phase, museum, collisionObjects, snoopy, pointerLock, player,
                    camera, airborne,
                    character, walkAction >>

\* the browser grants or withdraws pointer lock on document.body
PointerLockChange ==
    /\ pointerLock' = ~pointerLock
    /\ step' = Op("pointerlockchange")
    /\ UNCHANGED << phase, museum, collisionObjects, snoopy, keys, player, camera,
                    spaceEdge, airborne,
                    character, walkAction >>

cameraSensitivity == 2000

\* the clamp without its lower limit
ClampPitchAbove(a) == Min2(PitchMax, a)

\* line 230
ClampPitch(a) == Max2(-PitchMax, Min2(PitchMax, a))

\* lines 226-230; mx in quarter turns of yaw, my in pixels
Look(p, mx, my) ==
    [p EXCEPT !.rotation = @ - mx,
              !.pitch = ClampPitch(@ + my * cameraSensitivity)]

\* the listener without its test of the pointer lock
MouseMoveUnlocked(mx, my) ==
    /\ phase = "run"
    /\ player' = Look(player, mx, my)
    /\ step' = [Op("mousemove") EXCEPT !.locked = pointerLock]
    /\ UNCHANGED << phase, museum, collisionObjects, snoopy, pointerLock, keys,
                    camera, spaceEdge, airborne, character, walkAction >>

MouseMove(mx, my) ==
    /\ phase = "run"
    /\ player' = IF pointerLock THEN Look(player, mx, my) ELSE player
    /\ step' = [Op("mousemove") EXCEPT !.locked = pointerLock]
    /\ UNCHANGED << phase, museum, collisionObjects, snoopy, pointerLock, keys,
                    camera, spaceEdge, airborne,
                    character, walkAction >>

(***************************************************************************)
(* updateCharacter (lines 403-427).  Of the walk action the state keeps    *)
(* what isRunning() answers: play() starts the action, fadeOut() only      *)
(* starts a fade of its weight, stop() ends it.  The playback time that    *)
(* the mixer advances (line 485) is not kept.                              *)
(***************************************************************************)
\* lines 408-409; the yaw in quarter turns, Math.PI being two of them
Transform(p) == [position |-> p.position, rotation |-> p.rotation + 2]

\* line 413
WalkSignal(p) == p.isMoving /\ p.isGrounded

\* line 415
Play(w) == [w EXCEPT !.running = TRUE]

\* lines 419-424: the fade starts and one more stop callback is queued
FadeOut(w) == [w EXCEPT !.timers = @ + 1]

\* lines 412-425
Walk(w, p) ==
    IF ~w.ready THEN w
    ELSE IF WalkSignal(p)
         THEN IF ~w.running THEN Play(w) ELSE w
         ELSE IF w.running THEN FadeOut(w) ELSE w

\* lines 421-422, the callback of setTimeout
StopWalk(w) == [w EXCEPT !.running = FALSE, !.timers = @ - 1]

\* the oldest queued callback runs, between two frames or events
StopTimer ==
    /\ phase = "run"
    /\ walkAction.timers > 0
    /\ walkAction' = StopWalk(walkAction)
    /\ step' = Op("timeout")
    /\ UNCHANGED << phase, museum, collisionObjects, snoopy, pointerLock, keys,
                    player, camera, spaceEdge, airborne, character >>

(***************************************************************************)
(* animate (lines 478-497): one frame with clamped time delta.             *)
(***************************************************************************)
\* the callbacks setTimeout may hold at once; the program has no limit
MaxTimers == 2

\* the frame gate without its test of the character
GameRunsUnloaded == pointerLock

\* the frame gate without its test of the pointer lock
GameRunsUnlocked == snoopy

\* line 489
GameRuns == snoopy /\ pointerLock

\* the history of an updatePlayer call with result r
StepOf(delta, r) ==
    [op |-> "animate", ran |-> TRUE, cam |-> snoopy, delta |-> delta,
     impulse |-> JumpFires(player, keys),
     refire |-> JumpFires(player, keys) /\ spaceEdge # "armed",
     midair |-> JumpFires(player, keys) /\ airborne,
     startGrounded |-> player.isGrounded,
     snapped |-> r.snapped,
     groundY |-> r.ground.position.y,
     locked |-> pointerLock]

\* lines 490-491, r being the result of updatePlayer
Update(delta, r) ==
    /\ player' = r.player
    /\ character' = Transform(r.player)
    /\ walkAction' = Walk(walkAction, r.player)
    /\ walkAction'.timers <= MaxTimers
    /\ keys' = r.keys
    /\ step' = StepOf(delta, r)
    /\ spaceEdge' = IF JumpFires(player, keys) THEN "consumed" ELSE spaceEdge
    /\ airborne' = IF JumpFires(player, keys) THEN TRUE
                   ELSE IF r.snapped THEN FALSE ELSE airborne

\* lines 490-491 alone: updatePlayer and updateCharacter of a frame whose
\* gate is open
GameStep(delta) ==
    /\ phase = "run"
    /\ GameRuns
    /\ \E r \in {updatePlayer(player, keys, delta, collisionObjects)} : Update(delta, r)
    /\ UNCHANGED << phase, museum, collisionObjects, snoopy, pointerLock, camera >>

Animate(delta) ==
    /\ phase = "run"
    /\ IF GameRuns
       THEN Update(delta, updatePlayer(player, keys, delta, collisionObjects))
       ELSE /\ step' = [Op("animate") EXCEPT !.locked = pointerLock, !.cam = snoopy]
            /\ UNCHANGED << player, keys, spaceEdge, airborne, character, walkAction >>
    /\ camera' = IF snoopy THEN updateCamera(player', collisionObjects) ELSE camera
    /\ UNCHANGED << phase, museum, collisionObjects, snoopy, pointerLock >>

(***************************************************************************)
(* Environment assets.                                                     *)
(***************************************************************************)
\* a hall: floor at height 0 closed by a wall in front (-Z)
Hall == {Floor(0, -500, 500, -500, 500), WallZ(-80, -500, 500, 0, 300)}

\* meshes that are nowhere near the origin: nothing to stand on
Void == {Floor(0, 2000, 3000, 2000, 3000)}

\* the only floor under the origin lies below the fall limit
Cellar == {Floor(-1020, -500, 500, -500, 500)}

(***************************************************************************)
(* Spec: the program under any asset of Museums and any outcome of the two *)
(* loads, with the Space key, pointer lock changes and frames in any       *)
(* order.                                                                  *)
(***************************************************************************)
Museums == {Hall, Void, Cellar}

SpecCodes == {"Space", "Other"}

Deltas == {0, 5, DeltaCap}

Init == \E m \in Museums : Start(m)

Next ==
    \/ \E ok \in BOOLEAN : LoadMuseum(ok)
    \/ \E ok \in BOOLEAN : LoadSnoopy(ok)
    \/ \E c \in SpecCodes : KeyDown(c)
    \/ \E c \in SpecCodes : KeyUp(c)
    \/ PointerLockChange
    \/ \E delta \in Deltas : Animate(delta)

Spec == Init /\ [][Next]_vars

\* C1: the jump trigger is edge-sensitive: once updatePlayer has consumed
\* keys.jump for an impulse, no later updatePlayer applies an impulse before
\* Space has been released and pressed again.
C1_JumpEdgeSensitive == ~step.refire

\* C2: an impulse is applied only by a step that starts grounded, and never
\* between an impulse and the next ground check that sets isGrounded.
C2_OneImpulsePerTakeoff == step.impulse => (step.startGrounded /\ ~step.midair)

\* a frame in the air after an impulse, with the jump key set, applied none
C2_Witness ==
    step.ran /\ ~step.impulse /\ airborne /\ keys.jump /\ ~player.isGrounded

\* C6: a step whose ground check leaves y below -10 resets position to
\* (0, 5, 0) and velocity to zero, so after every step y >= -10.
C6_FallSafetyNet ==
    step.ran =>
        /\ player.position.y >= fallLimit
        /\ step.groundY < fallLimit =>
               (player.position = Vec(0, 500, 0) /\ player.velocity = Vec(0, 0, 0))

\* a step whose ground check ended below the limit
C6_Witness == step.ran /\ step.groundY < fallLimit

(***************************************************************************)
(* SpecLoadFails: the program when the character asset never loads (the    *)
(* museum may or may not), under every key code, mouse moves, pointer lock *)
(* changes and frames.                                                     *)
(***************************************************************************)
MaxTurn == 1

Moves == {<< 1, 0 >>, << -1, 0 >>, << 0, 600 >>, << 0, -600 >>}

\* the yaw is unbounded in the program; the model stops turning at MaxTurn
TurnAllowed(mx) == Abs(player.rotation - mx) <= MaxTurn

NextLoadFails ==
    \/ \E ok \in BOOLEAN : LoadMuseum(ok)
    \/ LoadSnoopy(FALSE)
    \/ \E c \in Codes : KeyDown(c)
    \/ \E c \in Codes : KeyUp(c)
    \/ PointerLockChange
    \/ \E mv \in Moves : TurnAllowed(mv[1]) /\ MouseMove(mv[1], mv[2])
    \/ \E delta \in Deltas : Animate(delta)

SpecLoadFails == Init /\ [][NextLoadFails]_vars

\* C10: after a failed load no frame runs updatePlayer, updateCharacter or
\* the camera computation, whatever events follow.
C10_NeverStarted ==
    (phase = "run" /\ ~snoopy) =>
        /\ ~step.ran
        /\ ~step.cam
        /\ player.position = player0.position
        /\ player.velocity = player0.velocity
        /\ player.isGrounded = player0.isGrounded
        /\ player.isMoving = player0.isMoving
        /\ camera = Vec(0, 0, 0)

\* a frame after a failed load, with the pointer locked, keys held and the
\* view turned
C10_Witness ==
    /\ phase = "run" /\ ~snoopy
    /\ step.op = "animate" /\ step.locked
    /\ keys.jump /\ keys.forward
    /\ player.pitch # 0

(***************************************************************************)
(* SpecLook: the program under mouse moves, pointer lock changes and       *)
(* frames, in rooms whose walls and ceiling obstruct the camera.           *)
(***************************************************************************)
\* walls 1.5 behind the player (+Z), 0.6 to its left (-X) and 2.0 to its
\* right (+X), and a ceiling at 2.5 that leaves the spawn column open
Gallery ==
    {Floor(0, -500, 500, -500, 500), Floor(250, -500, 500, 50, 500),
     WallZ(150, -500, 500, 0, 250), WallX(-60, 0, 250, -500, 500),
     WallX(200, 0, 250, -500, 500)}

\* a parapet 1.5 behind the player that the line of sight can pass over,
\* and a second wall behind it
Parapet ==
    {Floor(0, -500, 500, -500, 500), WallZ(150, -500, 500, 0, 140),
     WallZ(280, -500, 500, 0, 400)}

\* an open floor
Plain == {Floor(0, -500, 500, -500, 500)}

LookMuseums == {Gallery, Parapet, Plain}

LookMoves == {<< 1, 0 >>, << -1, 0 >>, << 0, 300 >>, << 0, -300 >>}

InitLook == \E m \in LookMuseums : Start(m)

NextLook ==
    \/ \E ok \in BOOLEAN : LoadMuseum(ok)
    \/ \E ok \in BOOLEAN : LoadSnoopy(ok)
    \/ PointerLockChange
    \/ \E mv \in LookMoves : TurnAllowed(mv[1]) /\ MouseMove(mv[1], mv[2])
    \/ \E delta \in Deltas : Animate(delta)

SpecLook == InitLook /\ [][NextLook]_vars

\* C7: the pitch stays within [-pi/3, +pi/3] under any sequence of mouse
\* moves and frames.
C7_PitchClamped == -PitchMax <= player.pitch /\ player.pitch <= PitchMax

\* a mouse move under pointer lock pushed the pitch against its upper limit
C7_Witness == step.op = "mousemove" /\ step.locked /\ player.pitch = PitchMax

\* mesh s separates points a and b: they lie strictly on opposite sides of
\* its plane and the segment between them passes through the rectangle
Separates(s, a, b) ==
    LET n  == s.n
        da == a[n] - s.at
        db == b[n] - s.at
    IN  /\ da * db < 0
        /\ \A c \in Axes \ {n} :
              /\ s.lo[c] * (Abs(da) + Abs(db)) <= a[c] * Abs(db) + b[c] * Abs(da)
              /\ a[c] * Abs(db) + b[c] * Abs(da) <= s.hi[c] * (Abs(da) + Abs(db))

\* mesh s lies between point a and point b, b included
Blocks(s, a, b) ==
    LET n  == s.n
        da == a[n] - s.at
        db == b[n] - s.at
    IN  /\ da # 0
        /\ da * db <= 0
        /\ \A c \in Axes \ {n} :
              /\ s.lo[c] * (Abs(da) + Abs(db)) <= a[c] * Abs(db) + b[c] * Abs(da)
              /\ a[c] * Abs(db) + b[c] * Abs(da) <= s.hi[c] * (Abs(da) + Abs(db))

\* the squared distance between two points
Dist2(a, b) ==
    (a.x - b.x) * (a.x - b.x) + (a.y - b.y) * (a.y - b.y) + (a.z - b.z) * (a.z - b.z)

\* C9: after updateCamera no mesh separates the player's head from the
\* camera; when meshes lie between the head and the desired position the
\* camera is 0.2 short of the nearest of them along the line of sight (to
\* the grid's rounding), or at the head when no more than 0.5 would remain;
\* with no mesh there it is at the desired position.
C9_CameraNotBeyond ==
    (step.op = "animate" /\ step.cam) =>
        LET head == playerHead(player)
            want == desiredCameraPos(player)
            blockers == {s \in collisionObjects : Blocks(s, head, want)}
        IN  /\ \A s \in collisionObjects : ~Separates(s, head, camera)
            /\ blockers = {} => camera = want
            /\ blockers # {} =>
                   /\ camera # want
                   /\ \/ camera = head
                      \/ Dist2(head, camera) > cameraMinDistance * cameraMinDistance
                   /\ \A s \in blockers :
                         Abs(s.at - camera[s.n]) * SightDistance(SightVector(head, want))
                             >= (cameraBuffer - 1) * Abs(SightVector(head, want)[s.n])
                   /\ camera # head =>
                         \E s \in blockers :
                            Abs(s.at - camera[s.n]) * SightDistance(SightVector(head, want))
                                <= (cameraBuffer + 2) * Abs(SightVector(head, want)[s.n])
                                   + 2 * SightDistance(SightVector(head, want))
                   /\ camera = head =>
                         \E s \in blockers :
                            Abs(s.at - head[s.n]) * SightDistance(SightVector(head, want))
                                <= (cameraMinDistance + cameraBuffer + 1)
                                   * Abs(SightVector(head, want)[s.n])

\* the wall half the camera distance behind the player pulled the camera in
C9_Witness ==
    /\ step.op = "animate" /\ step.cam
    /\ player.rotation = 0 /\ player.pitch = 0
    /\ \E s \in collisionObjects : s.n = "z" /\ s.at = 150 /\ Blocks(s, playerHead(player), desiredCameraPos(player))
    /\ camera # playerHead(player)
    /\ camera.z < 150 /\ camera.z >= 150 - cameraBuffer - 1

(***************************************************************************)
(* SpecStart: init() under environment assets with up to MaxFloors floors  *)
(* stacked over the origin at any of Levels, beside a mesh far from it.    *)
(***************************************************************************)
MaxFloors == 2

Levels == {-6000, -700, -500, -200, 0, 200, 350, 500, 600, 900}

Stack(hs) ==
    {Floor(h, -500, 500, -500, 500) : h \in hs} \cup {Floor(100, 2000, 3000, 2000, 3000)}

StartMuseums == {Stack(hs) : hs \in {t \in SUBSET Levels : Cardinality(t) <= MaxFloors}}

InitStart == \E m \in StartMuseums : Start(m)

NextStart ==
    \/ \E ok \in BOOLEAN : LoadMuseum(ok)
    \/ \E ok \in BOOLEAN : LoadSnoopy(ok)
    \/ PointerLockChange

SpecStart == InitStart /\ [][NextStart]_vars

\* the heights of the meshes that lie over or under the origin
OriginHeights ==
    {s.at : s \in {t \in collisionObjects :
                      /\ t.n = "y"
                      /\ t.lo.x <= 0 /\ 0 <= t.hi.x
                      /\ t.lo.z <= 0 /\ 0 <= t.hi.z}}

\* the heights a downward ray from altitude y reaches
HeightsBelow(y) == {h \in OriginHeights : h <= y}

Greatest(hs) == CHOOSE h \in hs : \A g \in hs : g <= h

\* C8: the spawn is 0.1 above the first hit of the downward rays from
\* altitudes 5, 2, 0, -5 in that order, else 0.1 above the hit of the upward
\* ray from -50, else the origin; over a single floor at 0 it is (0, 0.1, 0).
C8_SpawnSearch ==
    (step.op = "loadSnoopy" /\ snoopy) =>
        /\ player.position.x = 0 /\ player.position.z = 0
        /\ player.position.y =
              IF HeightsBelow(500) # {} THEN Greatest(HeightsBelow(500)) + 10
              ELSE IF HeightsBelow(200) # {} THEN Greatest(HeightsBelow(200)) + 10
              ELSE IF HeightsBelow(0) # {} THEN Greatest(HeightsBelow(0)) + 10
              ELSE IF HeightsBelow(-500) # {} THEN Greatest(HeightsBelow(-500)) + 10
              ELSE IF {h \in OriginHeights : h >= -5000} # {}
                   THEN Least({h \in OriginHeights : h >= -5000}) + 10
                   ELSE 0
        /\ OriginHeights = {0} => player.position = Vec(0, 10, 0)

\* every downward ray missed and the upward ray found the lower of two floors
C8_Witness ==
    /\ step.op = "loadSnoopy" /\ snoopy
    /\ OriginHeights = {600, 900}
    /\ player.position = Vec(0, 610, 0)

(***************************************************************************)
(* SpecWalk: the program under the forward and backward keys, pointer lock *)
(* changes and frames, in museums with a drop in front of the spawn.       *)
(***************************************************************************)
\* a stage 0.4 above the pit in front of it (-Z), closed by walls
Stage ==
    {Floor(0, -500, 500, -20, 500), Floor(-40, -500, 500, -500, -20),
     WallZ(-80, -500, 500, -100, 300), WallZ(40, -500, 500, -100, 300)}

\* a balcony 2.0 above a floor that carries a dais 0.2 high, closed by walls
Balcony ==
    {Floor(200, -500, 500, -20, 500), Floor(0, -500, 500, -500, -20),
     Floor(20, -500, 500, -500, -20),
     WallZ(-80, -500, 500, -100, 500), WallZ(40, -500, 500, -100, 500)}

WalkMuseums == {Stage, Balcony}

WalkCodes == {"KeyW", "KeyS", "Other"}

WalkDeltas == {DeltaCap}

InitWalk == \E m \in WalkMuseums : Start(m)

NextWalk ==
    \/ \E ok \in BOOLEAN : LoadMuseum(ok)
    \/ \E ok \in BOOLEAN : LoadSnoopy(ok)
    \/ \E c \in WalkCodes : KeyDown(c)
    \/ \E c \in WalkCodes : KeyUp(c)
    \/ PointerLockChange
    \/ \E delta \in WalkDeltas : Animate(delta)

SpecWalk == InitWalk /\ [][NextWalk]_vars

\* C3: after every checkGround call isGrounded is true exactly when that
\* call found a surface within the 0.15 tolerance of the feet (with
\* non-positive vertical velocity); a player who walks over an edge onto
\* nothing nearer than the tolerance is not left grounded.
C3_GroundedIffSnapped == step.ran => (player.isGrounded <=> step.snapped)

\* C5: checkGround is idempotent: a second call right after the one that
\* ended the step leaves isGrounded, position.y and velocity.y as they are.
C5_GroundCheckIdempotent ==
    (step.ran /\ step.groundY >= fallLimit) =>
        LET again == checkGround(player, collisionObjects)
        IN  /\ again.isGrounded = player.isGrounded
            /\ again.position.y = player.position.y
            /\ again.velocity.y = player.velocity.y

(***************************************************************************)
(* SpecCollision: checkCollision applied to a tentative position among up  *)
(* to MaxWalls axis-aligned walls.  The walls stand from the floor to 3.0  *)
(* and either run the whole length of the room or start 0.1 past the       *)
(* origin.                                                                 *)
(***************************************************************************)
MaxWalls == 2

WallPlanes == {-45, -15, 15, 45}

WallSpans == {<< -500, 500 >>, << 10, 500 >>}

WallCatalogue ==
    {WallX(w, 0, 300, sp[1], sp[2]) : w \in WallPlanes, sp \in WallSpans}
        \cup {WallZ(w, sp[1], sp[2], 0, 300) : w \in WallPlanes, sp \in WallSpans}

CollisionMuseums ==
    {m \in SUBSET WallCatalogue : Cardinality(m) >= 1 /\ Cardinality(m) <= MaxWalls}

\* coordinates of the tentative position (line 381-384)
Tentative == {-50, -35, -20, -10, 0, 5, 20, 30, 50}

InitCollision ==
    \E m \in CollisionMuseums : \E x \in Tentative : \E z \in Tentative :
        /\ phase = "run"
        /\ museum = m
        /\ collisionObjects = m
        /\ snoopy = TRUE
        /\ pointerLock = TRUE
        /\ keys = keys0
        /\ player = [player0 EXCEPT !.position = Vec(x, 0, z)]
        /\ camera = Vec(0, 0, 0)
        /\ step = Op("newPosition")
        /\ spaceEdge = "armed"
        /\ airborne = FALSE
        /\ character = character0
        /\ walkAction = walkAction0

\* lines 387-388
CheckCollision ==
    /\ step.op = "newPosition"
    /\ player' = [player EXCEPT !.position = checkCollision(@, collisionObjects)]
    /\ step' = Op("checkCollision")
    /\ UNCHANGED << phase, museum, collisionObjects, snoopy, pointerLock, keys,
                    camera, spaceEdge, airborne,
                    character, walkAction >>

NextCollision == CheckCollision

SpecCollision == InitCollision /\ [][NextCollision]_vars

\* no collidable surface nearer than collisionRadius along axis a, direction
\* sg, from the position raised by half the character height
Clear(pos, a, sg) ==
    \A s \in RayHits(ProbeOrigin(pos), a, sg, InfFar, collisionObjects) :
        sg * (s.at - pos[a]) >= collisionRadius

\* C4: after checkCollision, along each of +X, -X, +Z, -Z the nearest
\* collidable surface is at least collisionRadius away from the corrected
\* position, for every tentative position and every set of walls.
C4_ClearOfWalls ==
    step.op = "checkCollision" =>
        \A a \in {"x", "z"} : \A sg \in {-1, 1} : Clear(player.position, a, sg)

(***************************************************************************)
(* SpecStroll: the program with a character asset that may hold animation  *)
(* clips, under the forward key, pointer lock changes, frames and the stop *)
(* callbacks of the walk animation, in any order.                          *)
(***************************************************************************)
\* a room: floor at height 0 between walls in front (-Z) and behind (+Z)
Studio ==
    {Floor(0, -500, 500, -500, 500),
     WallZ(-80, -500, 500, -100, 300), WallZ(40, -500, 500, -100, 300)}

StrollCodes == {"KeyW", "Other"}

\* two frames in the same millisecond have delta 0 (line 481)
StrollDeltas == {0, DeltaCap}

InitStroll == Start(Studio)

NextStroll ==
    \/ \E ok \in BOOLEAN : LoadMuseum(ok)
    \/ \E ok \in BOOLEAN : \E clips \in BOOLEAN : LoadCharacter(ok, clips)
    \/ \E c \in StrollCodes : KeyDown(c)
    \/ \E c \in StrollCodes : KeyUp(c)
    \/ PointerLockChange
    \/ \E delta \in StrollDeltas : Animate(delta)
    \/ StopTimer

SpecStroll == InitStroll /\ [][NextStroll]_vars

\* C11: the walk action runs after every updateCharacter call that found
\* isMoving && isGrounded and keeps running until a frame finds otherwise;
\* no stop callback queued by an earlier idle frame stops it in between.
\* (isMoving and isGrounded change only in updatePlayer, which every
\* updateCharacter call follows.)
C11_WalkFollowsSignal ==
    (walkAction.ready /\ WalkSignal(player)) => walkAction.running

(***************************************************************************)
(* SpecDamp: updatePlayer repeated, frame after frame, from a player who   *)
(* stands on the floor with some horizontal velocity while the keys held   *)
(* give no net direction.  animate() asks for its next frame every time it *)
(* runs (line 479) and nothing withdraws the pointer lock here, so a step  *)
(* that can be taken is taken: the weak fairness of SpecDamp.              *)
(***************************************************************************)
\* key states whose directions cancel
DampKeys ==
    {keys0,
     [keys0 EXCEPT !.forward = TRUE, !.backward = TRUE],
     [keys0 EXCEPT !.left = TRUE, !.right = TRUE, !.jump = TRUE]}

\* horizontal velocities <<x, z>> a walk can leave behind: along an axis,
\* along a diagonal, and what is left of them some steps later
DampVelocities ==
    {<< 250, 0 >>, << 0, -250 >>, << -176, 176 >>, << 50, 50 >>, << 7, -30 >>,
     << 1, 0 >>, << 0, 0 >>}

InitDamp ==
    \E k \in DampKeys : \E v \in DampVelocities :
        /\ phase = "run"
        /\ museum = Plain
        /\ collisionObjects = Plain
        /\ snoopy = TRUE
        /\ pointerLock = TRUE
        /\ keys = k
        /\ player = [player0 EXCEPT !.position = Vec(0, groundSnap, 0),
                                    !.velocity = Vec(v[1], 0, v[2])]
        /\ camera = updateCamera(player, Plain)
        /\ step = Op("animate")
        /\ spaceEdge = "armed"
        /\ airborne = FALSE
        /\ character = Transform(player)
        /\ walkAction = walkAction0

NextDamp == \E delta \in WalkDeltas : GameStep(delta)

SpecDamp == InitDamp /\ [][NextDamp]_vars /\ WF_vars(NextDamp)

\* C12: every step without net direction brings velocity.x and velocity.z
\* to 0.9 of their value (to the hundredth, toward zero), so the horizontal
\* speed never increases, and after finitely many steps it is below the
\* smallest positive speed and stays there.
C12_DampingConverges ==
    /\ [][\A a \in {"x", "z"} :
            /\ 10 * Abs(player'.velocity[a]) <= 9 * Abs(player.velocity[a])
            /\ 10 * Abs(player'.velocity[a]) > 9 * Abs(player.velocity[a]) - 10
            /\ Sgn(player'.velocity[a]) * Sgn(player.velocity[a]) >= 0]_vars
    /\ <>[](player.velocity.x = 0 /\ player.velocity.z = 0)

\* the player has slid away from the origin on both axes and come to rest
C12_Witness ==
    /\ step.ran /\ ~player.isMoving
    /\ player.position.x # 0 /\ player.position.z # 0
    /\ player.velocity.x = 0 /\ player.velocity.z = 0

\* C13: an updatePlayer call with delta = 0 leaves player.position and
\* player.velocity as they were, whatever the keys and the grounded flag.
C13_ZeroDeltaNoOp ==
    [][(step'.ran /\ step'.delta = 0) =>
          /\ player'.position = player.position
          /\ player'.velocity = player.velocity]_vars

(***************************************************************************)
(* SpecKeys: updatePlayer repeated from a player who stands in the Studio, *)
(* facing -Z or turned a quarter, at rest or sliding, under every          *)
(* combination of the four direction keys.                                 *)
(***************************************************************************)
DirectionKeys ==
    {[keys0 EXCEPT !.forward = f, !.backward = b, !.left = l, !.right = r] :
        f \in BOOLEAN, b \in BOOLEAN, l \in BOOLEAN, r \in BOOLEAN}

KeysVelocities == {<< 0, 0 >>, << 250, 0 >>, << -176, 176 >>}

InitKeys ==
    \E k \in DirectionKeys : \E v \in KeysVelocities : \E q \in {0, 1} :
        /\ phase = "run"
        /\ museum = Studio
        /\ collisionObjects = Studio
        /\ snoopy = TRUE
        /\ pointerLock = TRUE
        /\ keys = k
        /\ player = [player0 EXCEPT !.position = Vec(0, groundSnap, 0),
                                    !.velocity = Vec(v[1], 0, v[2]),
                                    !.rotation = q]
        /\ camera = updateCamera(player, Studio)
        /\ step = Op("animate")
        /\ spaceEdge = "armed"
        /\ airborne = FALSE
        /\ character = Transform(player)
        /\ walkAction = walkAction0

NextKeys == \E delta \in WalkDeltas : GameStep(delta)

SpecKeys == InitKeys /\ [][NextKeys]_vars

\* C14: after every updatePlayer step isMoving is true exactly when forward
\* and backward differ or left and right differ; when both pairs cancel the
\* step decelerates: no horizontal component keeps more than 0.9 of its
\* value.
C14_MovingIffNetDirection ==
    [][step'.ran =>
          /\ player'.isMoving <=>
                 ((keys.forward # keys.backward) \/ (keys.left # keys.right))
          /\ ((keys.forward = keys.backward) /\ (keys.left = keys.right)) =>
                 \A a \in {"x", "z"} :
                     10 * Abs(player'.velocity[a]) <= 9 * Abs(player.velocity[a])]_vars

\* all four keys held: the step found no direction and slowed the slide down
C14_Witness ==
    /\ step.ran
    /\ keys.forward /\ keys.backward /\ keys.left /\ keys.right
    /\ ~player.isMoving
    /\ player.velocity.x = 225

\* C15: a step applies gravity exactly when isGrounded is false at line 376,
\* that is unless the step started grounded and applied no jump impulse:
\* where neither the ground snap nor the fall reset overwrote it afterwards,
\* velocity.y ends gravity * delta below its value (below jumpForce in the
\* step of an impulse), or unchanged if grounded, and position.y moved by
\* that velocity.
C15_GravityIffAirborne ==
    [][(step'.ran /\ ~step'.snapped /\ step'.groundY >= fallLimit) =>
          /\ player'.velocity.y =
                 (IF step'.impulse THEN jumpForce ELSE player.velocity.y)
                 - (IF player.isGrounded /\ ~step'.impulse
                    THEN 0 ELSE (gravity * step'.delta) \div 100)
          /\ player'.position.y =
                 player.position.y
                 + Sgn(player'.velocity.y)
                   * ((Abs(player'.velocity.y) * step'.delta) \div 100)]_vars

\* the step of a jump impulse, gravity already taken off the impulse
C15_Witness ==
    /\ step.ran /\ step.impulse /\ step.delta = DeltaCap
    /\ player.velocity.y = jumpForce - (gravity * DeltaCap) \div 100

\* C16: a mousemove event delivered while document.body does not hold the
\* pointer lock leaves player.rotation and player.pitch unchanged.
C16_LookNeedsLock ==
    [][(step'.op = "mousemove" /\ ~pointerLock) =>
          /\ player'.rotation = player.rotation
          /\ player'.pitch = player.pitch]_vars

\* a mouse move while unlocked, after moves while locked turned the view
C16_Witness ==
    /\ step.op = "mousemove" /\ ~step.locked
    /\ player.rotation # 0 /\ player.pitch # 0

\* C17: in the initial state and after every updatePlayer step (and every
\* event between steps), isGrounded implies velocity.y = 0.
C17_GroundedAtRest == player.isGrounded => player.velocity.y = 0

\* the step that lands a jump: it started in the air and ended grounded
C17_Witness ==
    /\ step.ran /\ step.snapped /\ ~step.startGrounded
    /\ airborne = FALSE /\ spaceEdge = "consumed"
    /\ player.isGrounded /\ player.velocity.y = 0

\* what a step leaves of the player when it does not run
Frozen ==
    /\ player'.position = player.position
    /\ player'.velocity = player.velocity
    /\ player'.isGrounded = player.isGrounded
    /\ player'.isMoving = player.isMoving
    /\ keys' = keys

\* a frame that runs updatePlayer right after the pointer lock was engaged
FirstStepLocked == step.op = "pointerlockchange" /\ pointerLock /\ step'.ran

\* the step consumed keys.jump and left the velocity of a jump begun in this
\* step (or the fall reset of lines 394-397 overrode it)
JumpApplied ==
    /\ ~keys'.jump
    /\ \/ player'.velocity.y = jumpForce - (gravity * step'.delta) \div 100
       \/ player'.position = Vec(0, 500, 0) /\ player'.velocity = Vec(0, 0, 0)

\* C18 as stated: a frame without the pointer lock leaves position,
\* velocity, isGrounded and isMoving unchanged and keys.jump set, and the
\* first step after the lock is engaged applies the jump whenever keys.jump
\* is still set.
C18_BufferedJumpApplied ==
    [][/\ (step'.op = "animate" /\ ~pointerLock) => Frozen
       /\ (FirstStepLocked /\ keys.jump) => JumpApplied]_vars

\* C18 amended: as above, but the first step after the lock is engaged
\* applies the jump only if the player is grounded then; if not, keys.jump
\* stays set and no impulse is applied.
C18_BufferedJumpIfGrounded ==
    [][/\ (step'.op = "animate" /\ ~pointerLock) => Frozen
       /\ (FirstStepLocked /\ keys.jump /\ player.isGrounded) => JumpApplied
       /\ (FirstStepLocked /\ keys.jump /\ ~player.isGrounded) =>
              (keys'.jump
               /\ player'.velocity.y <= Max2(player.velocity.y, 0))]_vars

\* in the Hall, the very first step (from the spawn point 0.1 above the
\* floor, so right after the lock was first engaged) applied the jump
C18_Witness ==
    /\ museum = Hall
    /\ step.ran /\ step.impulse /\ step.delta = DeltaCap
    /\ player.position.y = spawnOffset + ((jumpForce - (gravity * DeltaCap) \div 100) * DeltaCap) \div 100
    /\ ~keys.jump

====
